---- MODULE Spec2Model ----
(***************************************************************************)
(* Model of the hierarchical validation engine of cyclonedx-validation-    *)
(* tests: the error tree (ValidationErrors / ValidationErrorsKind), the    *)
(* merge algebra, the ValidationContext builder (src/src/validation.rs)    *)
(* and the Validate implementations of Tool, Metadata and Bom              *)
(* (src/src/lib.rs).                                                       *)
(*                                                                         *)
(* Spec     drives one ValidationContext through arbitrary add_* calls;    *)
(*          finished contexts are kept as the results of child validators. *)
(* SpecBom  draws a Bom document and a SpecVersion and validates it.       *)
(* SpecField merges field and enum errors into one ValidationResult.       *)
(***************************************************************************)
EXTENDS Naturals, Sequences, FiniteSets, TLC

VARIABLES
    ctx,        \* ValidationContext.state of the context under construction, or a Panic
    checks,     \* history of the context under construction: "none" while no add_*
                \* call was made, "failed" once a check of a call has failed,
                \* "passed" while calls were made and no check has failed
    done,       \* results of the finished contexts (the child validators' results)
    cmp,        \* SpecBom: the last comparison of the result with an expected tree
    doc,        \* SpecBom: the Bom document under validation
    specVersion, \* SpecBom: the SpecVersion of the run
    call,       \* SpecBom: which entry point has run ("none" before)
    result,     \* SpecBom: what the entry point returned
    merged      \* SpecField: the merge_field / merge_enum calls made so far

vars == <<ctx, checks, done, cmp, doc, specVersion, call, result, merged>>

-----------------------------------------------------------------------------
(* Bounds of the model *)

\* most elements of a list handed to add_list (finished child contexts kept)
MaxList == 3
\* largest size (leaves and nested nodes) of the context and the kept children together
MaxSize == 3
\* most tools of a Metadata
MaxTools == 2
\* the number of merge calls made on one ValidationResult
MaxMerges == 3

-----------------------------------------------------------------------------
(* Values: Option, Result, strings *)

None == [some |-> FALSE]
Some(v) == [some |-> TRUE, val |-> v]

Ok == [ok |-> TRUE]
Err(e) == [ok |-> FALSE, err |-> e]

\* ValidationError::new(message)
ValidationError(message) == [message |-> message]

\* a panic!(msg): the call does not return
Panic(msg) == [panic |-> msg]
IsPanic(x) == "panic" \in DOMAIN x

\* a string of n characters, the first an 'a' when withA
StrOf(n, withA) == [i \in 1..n |-> IF withA /\ i = 1 THEN "a" ELSE "x"]

-----------------------------------------------------------------------------
(* Leaf predicates, src/src/lib.rs *)

validate_string_max == 4

validate_timestamp(input) ==
    IF \E i \in 1..Len(input) : input[i] = "a"
    THEN Err(ValidationError("timestamp contains char 'a'"))
    ELSE Ok

validate_string(input) ==
    IF Len(input) > validate_string_max
    THEN Err(ValidationError("String is too large"))
    ELSE Ok

validate_vendor(input) == Ok

validate_toolkind(kind) ==
    IF kind = "Hammer"
    THEN Err(ValidationError("Tool must not be a hammer"))
    ELSE Ok

\* calling the predicate passed as `validation`
Apply(validation, v) ==
    CASE validation = "validate_timestamp" -> validate_timestamp(v)
      [] validation = "validate_string"    -> validate_string(v)
      [] validation = "validate_vendor"    -> validate_vendor(v)
      [] validation = "validate_toolkind"  -> validate_toolkind(v)

-----------------------------------------------------------------------------
(* ValidationResult, ValidationErrorsKind, ValidationErrors *)

Passed == [tag |-> "Passed"]
Error(errors) == [tag |-> "Error", errors |-> errors]

passed(r) == r.tag = "Passed"
has_errors(r) == r.tag = "Error"

Field(vec) == [tag |-> "Field", errs |-> vec]
Enum(e) == [tag |-> "Enum", err |-> e]
Struct(errors) == [tag |-> "Struct", errors |-> errors]
List(map) == [tag |-> "List", items |-> map]

\* ValidationErrors::new() / default(): inner is an insertion-ordered IndexMap,
\* modelled as the sequence of its (key, value) entries
ValidationErrors_new == [inner |-> <<>>]

\* From<ValidationResult> for ValidationErrors
into_errors(value) ==
    IF value.tag = "Passed" THEN ValidationErrors_new ELSE value.errors

contains_key(errors, key) ==
    \E i \in 1..Len(errors.inner) : errors.inner[i].key = key

is_empty(errors) == Len(errors.inner) = 0

\* ValidationResult::errors
ValidationResult_errors(r) == IF r.tag = "Passed" THEN None ELSE Some(r.errors)

\* IndexMap::get_index_of
IndexOf(errors, key) ==
    CHOOSE i \in 1..Len(errors.inner) : errors.inner[i].key = key

\* IndexMap::get
Get(errors, key) == errors.inner[IndexOf(errors, key)].value

Insert(errors, key, kind) ==
    [inner |-> Append(errors.inner, [key |-> key, value |-> kind])]

\* mutant: an occupied name is silently kept instead of aborting
add_nested_keeps_occupied(errors, nested_name, errors_kind) ==
    IF ~contains_key(errors, nested_name)
    THEN Insert(errors, nested_name, errors_kind)
    ELSE errors

\* ValidationErrors::add_nested
ValidationErrors_add_nested(errors, nested_name, errors_kind) ==
    IF ~contains_key(errors, nested_name)
    THEN Insert(errors, nested_name, errors_kind)
    ELSE Panic("Attempt to replace non-empty nested entry")

\* ValidationErrors::add_enum
ValidationErrors_add_enum(errors, enum_name, validation_error) ==
    IF ~contains_key(errors, enum_name)
    THEN Insert(errors, enum_name, Enum(validation_error))
    ELSE Panic("Attempt to replace non-empty enum entry")

\* mutant: the entry is overwritten, keeping only the newest error
add_field_keeps_newest(errors, field_name, validation_error) ==
    IF ~contains_key(errors, field_name)
    THEN Insert(errors, field_name, Field(<<validation_error>>))
    ELSE LET i == IndexOf(errors, field_name)
         IN  IF errors.inner[i].value.tag = "Field"
             THEN [inner |-> [errors.inner EXCEPT
                                 ![i].value = Field(<<validation_error>>)]]
             ELSE Panic("Found a non-field ValidationErrorsKind")

\* ValidationErrors::add_field
ValidationErrors_add_field(errors, field_name, validation_error) ==
    LET withEntry == IF contains_key(errors, field_name)
                     THEN errors
                     ELSE Insert(errors, field_name, Field(<<>>))
        i == IndexOf(withEntry, field_name)
    IN  IF withEntry.inner[i].value.tag = "Field"
        THEN [inner |-> [withEntry.inner EXCEPT
                            ![i].value.errs = Append(@, validation_error)]]
        ELSE Panic("Found a non-field ValidationErrorsKind")

\* impl From<Vec<(&str, ValidationErrorsKind)>> for ValidationErrors, and the
\* array .into() of the tests: the entries are inserted in the order written, a
\* repeated key replacing the value of its first entry
RECURSIVE ValidationErrors_from(_)
ValidationErrors_from(entries) ==
    IF Len(entries) = 0 THEN ValidationErrors_new
    ELSE LET n == Len(entries)
             front == ValidationErrors_from(SubSeq(entries, 1, n - 1))
             e == entries[n]
         IN  IF contains_key(front, e.key)
             THEN [inner |-> [front.inner EXCEPT ![IndexOf(front, e.key)].value = e.value]]
             ELSE Insert(front, e.key, e.value)

RECURSIVE ValidationErrors_eq(_, _), ValidationErrorsKind_eq(_, _)

\* mutant: the entries are compared pairwise in insertion order
eq_in_insertion_order(a, b) ==
    /\ Len(a.inner) = Len(b.inner)
    /\ \A i \in 1..Len(a.inner) :
          /\ a.inner[i].key = b.inner[i].key
          /\ ValidationErrorsKind_eq(a.inner[i].value, b.inner[i].value)

\* #[derive(PartialEq)] of ValidationErrors: the == of its IndexMap, which
\* compares the lengths and looks every entry of the one up by key in the other
ValidationErrors_eq(a, b) ==
    /\ Len(a.inner) = Len(b.inner)
    /\ \A i \in 1..Len(a.inner) :
          /\ contains_key(b, a.inner[i].key)
          /\ ValidationErrorsKind_eq(a.inner[i].value, Get(b, a.inner[i].key))

\* #[derive(PartialEq)] of ValidationErrorsKind: same variant, equal payloads
\* (Vec and BTreeMap compare element by element, in index / key order)
ValidationErrorsKind_eq(a, b) ==
    IF a.tag # b.tag THEN FALSE
    ELSE CASE a.tag = "Struct" -> ValidationErrors_eq(a.errors, b.errors)
           [] a.tag = "List"   ->
                 /\ DOMAIN a.items = DOMAIN b.items
                 /\ \A k \in DOMAIN a.items : ValidationErrors_eq(a.items[k], b.items[k])
           [] a.tag = "Field"  ->
                 /\ Len(a.errs) = Len(b.errs)
                 /\ \A i \in 1..Len(a.errs) : a.errs[i].message = b.errs[i].message
           [] a.tag = "Enum"   -> a.err.message = b.err.message

\* == of two Option<&ValidationErrors>
Option_eq(x, y) ==
    IF x.some /\ y.some THEN ValidationErrors_eq(x.val, y.val)
    ELSE x.some = y.some

\* a merge returns Error(errors) unless the add_* it calls panicked
ErrorOrPanic(errors) == IF IsPanic(errors) THEN errors ELSE Error(errors)

merge_field(parent, field_name, validation_error) ==
    ErrorOrPanic(ValidationErrors_add_field(into_errors(parent), field_name,
                                            validation_error))

merge_enum(parent, enum_name, validation_error) ==
    ErrorOrPanic(ValidationErrors_add_enum(into_errors(parent), enum_name,
                                           validation_error))

\* mutant: the child's entries are flattened into the parent's
merge_struct_flattens(parent, struct_name, validation_errors) ==
    Error([inner |-> into_errors(parent).inner \o validation_errors.inner])

merge_struct(parent, struct_name, validation_errors) ==
    ErrorOrPanic(ValidationErrors_add_nested(into_errors(parent), struct_name,
                                             Struct(validation_errors)))

\* mutant: the List entry is written even when no child failed
merge_list_always_writes(parent, field_name, children) ==
    LET failing == {i \in 1..Len(children) : children[i].tag = "Error"}
        child_errors == [k \in {i - 1 : i \in failing} |-> children[k + 1].errors]
    IN  ErrorOrPanic(ValidationErrors_add_nested(into_errors(parent),
                         field_name, List(child_errors)))

\* children is the Vec of results, children[i] the result of element i-1
merge_list(parent, field_name, children) ==
    LET failing == {i \in 1..Len(children) : children[i].tag = "Error"}
        child_errors == [k \in {i - 1 : i \in failing} |-> children[k + 1].errors]
    IN  IF failing = {}
        THEN parent
        ELSE ErrorOrPanic(ValidationErrors_add_nested(into_errors(parent),
                              field_name, List(child_errors)))

-----------------------------------------------------------------------------
(* ValidationContext *)

(* A panic unwinds the whole call chain: an add_* on a context whose earlier
   call has panicked, or whose child validator panics, is that panic. *)

ValidationContext_new == Passed

\* field.into().map(validation): the predicate runs only on a present value
MapOption(field, validation) ==
    IF field.some THEN Some(Apply(validation, field.val)) ELSE None

\* mutant: an absent value is reported as a violation
add_field_absent_is_error(self, field_name, field, validation) ==
    LET r == MapOption(field, validation)
    IN  IF ~r.some
        THEN merge_field(self, field_name, ValidationError("missing"))
        ELSE IF ~r.val.ok
             THEN merge_field(self, field_name, r.val.err)
             ELSE self

ValidationContext_add_field(self, field_name, field, validation) ==
    IF IsPanic(self) THEN self
    ELSE LET r == MapOption(field, validation)
         IN  IF r.some /\ ~r.val.ok
             THEN merge_field(self, field_name, r.val.err)
             ELSE self

ValidationContext_add_enum(self, enum_name, enum, validation) ==
    IF IsPanic(self) THEN self
    ELSE LET r == MapOption(enum, validation)
         IN  IF r.some /\ ~r.val.ok
             THEN merge_enum(self, enum_name, r.val.err)
             ELSE self

\* calling the closure passed as the validator of add_list / add_struct; a
\* closure is its function and the SpecVersion it captured
RECURSIVE Call(_, _)

\* the first panic among the children's results
FirstPanic(children) ==
    children[CHOOSE i \in 1..Len(children) :
                /\ IsPanic(children[i])
                /\ \A j \in 1..(i - 1) : ~IsPanic(children[j])]

\* mutant: validation stops after the first failing element
CollectUntilFirstError(list, validation) ==
    LET all == [i \in 1..Len(list) |-> Call(validation, list[i])]
        bad == {i \in 1..Len(list) : IsPanic(all[i]) \/ all[i].tag = "Error"}
        stop == IF bad = {} THEN Len(list)
                ELSE CHOOSE i \in bad : \A j \in bad : i <= j
    IN  SubSeq(all, 1, stop)

\* list.into_iter().map(validation).collect::<Vec<_>>()
CollectAll(list, validation) == [i \in 1..Len(list) |-> Call(validation, list[i])]

ValidationContext_add_list(self, list_name, list, validation) ==
    IF IsPanic(self) THEN self
    ELSE LET children == CollectAll(list, validation)
         IN  IF \E i \in 1..Len(children) : IsPanic(children[i])
             THEN FirstPanic(children)
             ELSE merge_list(self, list_name, children)

ValidationContext_add_struct(self, struct_name, struct, validation) ==
    IF IsPanic(self) THEN self
    ELSE LET r == IF struct.some THEN Some(Call(validation, struct.val)) ELSE None
         IN  IF r.some /\ IsPanic(r.val) THEN r.val
             ELSE IF r.some /\ r.val.tag = "Error"
                  THEN merge_struct(self, struct_name, r.val.errors)
                  ELSE self

-----------------------------------------------------------------------------
(* The document types and their Validate implementations, src/src/lib.rs *)

\* mutant: the kind is reported under the name of the name field
Tool_validate_kind_as_name(self, version) ==
    LET c1 == ValidationContext_add_field(ValidationContext_new, "vendor",
                                          self.vendor, "validate_vendor")
        c2 == ValidationContext_add_field(c1, "name", Some(self.name),
                                          "validate_string")
        c3 == ValidationContext_add_field(c2, "lastname", self.lastname,
                                          "validate_string")
    IN  ValidationContext_add_enum(c3, "name", Some(self.kind), "validate_toolkind")

\* mutant: a screwdriver is rejected too
Tool_validate_rejects_all_kinds(self, version) ==
    LET c1 == ValidationContext_add_field(ValidationContext_new, "vendor",
                                          self.vendor, "validate_vendor")
        c2 == ValidationContext_add_field(c1, "name", Some(self.name),
                                          "validate_string")
        c3 == ValidationContext_add_field(c2, "lastname", self.lastname,
                                          "validate_string")
    IN  ValidationContext_add_enum(c3, "kind", Some("Hammer"), "validate_toolkind")

\* impl Validate for Tool
Tool_validate(self, version) ==
    LET c1 == ValidationContext_add_field(ValidationContext_new, "vendor",
                                          self.vendor, "validate_vendor")
        c2 == ValidationContext_add_field(c1, "name", Some(self.name),
                                          "validate_string")
        c3 == ValidationContext_add_field(c2, "lastname", self.lastname,
                                          "validate_string")
    IN  ValidationContext_add_enum(c3, "kind", Some(self.kind), "validate_toolkind")

\* mutant: the timestamp rule does not depend on the version
Metadata_validate_one_rule(self, version) ==
    LET builder == ValidationContext_add_list(ValidationContext_new, "tools",
                       self.tools, [fn |-> "Tool::validate", version |-> version])
    IN  ValidationContext_add_field(builder, "timestamp", self.timestamp,
                                    "validate_timestamp")

\* impl Validate for Metadata
Metadata_validate(self, version) ==
    LET builder == ValidationContext_add_list(ValidationContext_new, "tools",
                       self.tools, [fn |-> "Tool::validate", version |-> version])
    IN  IF version = "V1_4"
        THEN ValidationContext_add_field(builder, "timestamp", self.timestamp,
                                         "validate_string")
        ELSE ValidationContext_add_field(builder, "timestamp", self.timestamp,
                                         "validate_timestamp")

\* impl Validate for Bom
Bom_validate(self, version) ==
    LET c1 == ValidationContext_add_field(ValidationContext_new, "serial_number",
                                          Some(self.serial_number), "validate_string")
    IN  ValidationContext_add_struct(c1, "meta_data", self.meta_data,
                       [fn |-> "Metadata::validate", version |-> version])

validate_bom(v, bom) == Bom_validate(bom, v)

\* "kept": the validator of Spec, whose child is the result it returns
Call(validation, x) ==
    CASE validation.fn = "kept"               -> x
      [] validation.fn = "Tool::validate"     -> Tool_validate(x, validation.version)
      [] validation.fn = "Metadata::validate" -> Metadata_validate(x, validation.version)

Kept == [fn |-> "kept", version |-> "V1_3"]

-----------------------------------------------------------------------------
(* Size of a tree: its ValidationError leaves plus its Struct and List nodes *)

RECURSIVE Size(_), SizeOfKind(_), SizeOfItems(_, _)

SizeOfItems(items, keys) ==
    IF keys = {} THEN 0
    ELSE LET k == CHOOSE x \in keys : TRUE
         IN  Size(items[k]) + SizeOfItems(items, keys \ {k})

SizeOfKind(kind) ==
    CASE kind.tag = "Field"  -> Len(kind.errs)
      [] kind.tag = "Enum"   -> 1
      [] kind.tag = "Struct" -> 1 + Size(kind.errors)
      [] kind.tag = "List"   -> 1 + SizeOfItems(kind.items, DOMAIN kind.items)

Size(errors) ==
    IF Len(errors.inner) = 0 THEN 0
    ELSE SizeOfKind(Head(errors.inner).value)
         + Size([inner |-> Tail(errors.inner)])

RECURSIVE SizeOfResults(_)
SizeOfResults(rs) ==
    IF Len(rs) = 0 THEN 0
    ELSE Size(into_errors(Head(rs))) + SizeOfResults(Tail(rs))

\* the model keeps trees of at most MaxSize in all; a panicking call always fits
Fits(new, pool) ==
    IF IsPanic(new) THEN TRUE
    ELSE Size(into_errors(new)) + SizeOfResults(pool) <= MaxSize

-----------------------------------------------------------------------------
(* Inputs *)

Names == {"a", "b"}

\* strings at the length limit and one past it, with and without an 'a'
Strings == {StrOf(n, b) : n \in {validate_string_max, validate_string_max + 1},
                          b \in BOOLEAN}

\* the values handed to add_field in Spec: one that passes the length rule and
\* one that fails it
FieldValues == {StrOf(validate_string_max, FALSE),
                StrOf(validate_string_max + 1, FALSE)}

OptStrings == {None} \cup {Some(s) : s \in Strings}

OptFieldValues == {None} \cup {Some(s) : s \in FieldValues}

\* the predicates handed to add_field in Spec
FieldValidations == {"validate_string", "validate_vendor"}

ToolKinds == {"Hammer", "ScrewDriver"}

OptToolKinds == {None} \cup {Some(k) : k \in ToolKinds}

NoDoc == [serial_number |-> <<>>, meta_data |-> None]

SpecVersions == {"V1_3", "V1_4", "V1_5"}

\* sequences over S of length at most n
SeqsUpTo(S, n) == UNION {[1..k -> S] : k \in 0..n}

Short == StrOf(validate_string_max, FALSE)
Long == StrOf(validate_string_max + 1, FALSE)

Tools ==
    [vendor : {None, Some(Long)}, name : {Short, Long},
     lastname : {None, Some(Long)}, kind : ToolKinds]

Metadatas == [timestamp : OptStrings, tools : SeqsUpTo(Tools, MaxTools)]

Boms == [serial_number : {Short, Long},
         meta_data : {None} \cup {Some(m) : m \in Metadatas}]

Reverse(seq) == [i \in 1..Len(seq) |-> seq[Len(seq) + 1 - i]]

\* the literal holding the entries of a tree written in the opposite order, at
\* every level of the tree
RECURSIVE DeepReversed(_)
DeepReversed(errs) ==
    ValidationErrors_from(Reverse(
        [i \in 1..Len(errs.inner) |->
            LET kind == errs.inner[i].value
            IN  [key |-> errs.inner[i].key,
                 value |->
                    CASE kind.tag = "Struct" -> Struct(DeepReversed(kind.errors))
                      [] kind.tag = "List"   ->
                            List([k \in DOMAIN kind.items |-> DeepReversed(kind.items[k])])
                      [] OTHER               -> kind]]))

NoCmp == [with |-> "none", equal |-> FALSE]

-----------------------------------------------------------------------------
(* Spec: one ValidationContext driven through arbitrary add_* calls *)

Init ==
    /\ ctx = ValidationContext_new
    /\ checks = "none"
    /\ done = <<>>
    /\ cmp = NoCmp
    /\ doc = NoDoc
    /\ specVersion = "V1_3"
    /\ call = "none"
    /\ result = Passed
    /\ merged = <<>>

\* the history after a call whose check failed (fails) or did not
AfterCheck(fails) ==
    IF fails \/ checks = "failed" THEN "failed" ELSE "passed"

BomUnchanged == UNCHANGED <<cmp, doc, specVersion, call, result, merged>>

\* ctx.add_field(name, field, validation)
AddField(name, field, validation) ==
    /\ ~IsPanic(ctx)
    /\ LET new == ValidationContext_add_field(ctx, name, field, validation)
       IN  /\ Fits(new, done)
           /\ ctx' = new
    /\ checks' = AfterCheck(field.some /\ ~Apply(validation, field.val).ok)
    /\ UNCHANGED done
    /\ BomUnchanged

\* ctx.add_enum(name, enum, validate_toolkind)
AddEnum(name, enum) ==
    /\ ~IsPanic(ctx)
    /\ LET new == ValidationContext_add_enum(ctx, name, enum, "validate_toolkind")
       IN  /\ Fits(new, done)
           /\ ctx' = new
    /\ checks' = AfterCheck(enum.some /\ ~Apply("validate_toolkind", enum.val).ok)
    /\ UNCHANGED done
    /\ BomUnchanged

\* the kept results without the i-th
Without(rs, i) == [j \in 1..(Len(rs) - 1) |-> IF j < i THEN rs[j] ELSE rs[j + 1]]

\* ctx.add_struct(name, struct, validator): the child is absent (pick = 0), or
\* the validator returns the pick-th kept result, which is consumed
AddStruct(name, pick) ==
    /\ ~IsPanic(ctx)
    /\ LET struct == IF pick = 0 THEN None ELSE Some(done[pick])
           rest == IF pick = 0 THEN done ELSE Without(done, pick)
           new == ValidationContext_add_struct(ctx, name, struct, Kept)
       IN  /\ Fits(new, rest)
           /\ ctx' = new
           /\ done' = rest
           /\ checks' = AfterCheck(struct.some /\ struct.val.tag = "Error")
    /\ BomUnchanged

\* ctx.add_list(name, list, validator): the elements are the finished contexts,
\* element i validating to done[i]; they are consumed
AddList(name) ==
    /\ ~IsPanic(ctx)
    /\ LET new == ValidationContext_add_list(ctx, name, done, Kept)
       IN  /\ Fits(new, <<>>)
           /\ ctx' = new
    /\ checks' = AfterCheck(\E i \in 1..Len(done) : done[i].tag = "Error")
    /\ done' = <<>>
    /\ BomUnchanged

\* ValidationResult::from(ctx): the context is finished, its result is kept as a
\* child's result, and a fresh ValidationContext::new() is started
Into ==
    /\ ~IsPanic(ctx)
    /\ Len(done) < MaxList
    /\ done' = Append(done, ctx)
    /\ ctx' = ValidationContext_new
    /\ checks' = "none"
    /\ BomUnchanged

Next ==
    \/ \E name \in Names, field \in OptFieldValues, validation \in FieldValidations :
          AddField(name, field, validation)
    \/ \E name \in Names, enum \in OptToolKinds : AddEnum(name, enum)
    \/ \E name \in Names, pick \in 0..Len(done) : AddStruct(name, pick)
    \/ \E name \in Names : AddList(name)
    \/ Into

Spec == Init /\ [][Next]_vars

-----------------------------------------------------------------------------
(* Inputs the properties range over at a reachable state *)

\* the ValidationErrors a leaf predicate can return
LeafErrors ==
    {Apply(v, x).err : <<v, x>> \in
        {vx \in (FieldValidations \X FieldValues) \cup ({"validate_toolkind"} \X ToolKinds) :
            ~Apply(vx[1], vx[2]).ok}}

\* the children add_struct can be given: absent, or validating to a kept result
StructArgs == {None} \cup {Some(done[i]) : i \in 1..Len(done)}

\* original positions (0-based) of the failing elements of a list of results
FailingPositions(children) ==
    {i - 1 : i \in {j \in 1..Len(children) : children[j].tag = "Error"}}

Keys(errors) == {errors.inner[i].key : i \in 1..Len(errors.inner)}

\* r is parent plus exactly one new last entry name -> kind, the others kept
GainsEntry(parent, r, name, kind) ==
    /\ ~IsPanic(r)
    /\ has_errors(r)
    /\ Len(r.errors.inner) = Len(into_errors(parent).inner) + 1
    /\ \A i \in 1..Len(into_errors(parent).inner) :
          r.errors.inner[i] = into_errors(parent).inner[i]
    /\ r.errors.inner[Len(r.errors.inner)] = [key |-> name, value |-> kind]

-----------------------------------------------------------------------------
(* C1: after any sequence of add_field / add_enum / add_struct / add_list calls
   from ValidationContext::new(), with the children built through
   ValidationContext too, the accumulated result is Passed iff no check failed;
   an Error never carries an empty tree, so passed() holds exactly when the
   tree would be empty. *)
C1_PassedIffNoCheckFailed ==
    /\ ~IsPanic(ctx) =>
          /\ passed(ctx) <=> checks # "failed"
          /\ has_errors(ctx) => ~is_empty(ctx.errors)
          /\ passed(ctx) <=> is_empty(into_errors(ctx))
          /\ passed(ctx) \/ has_errors(ctx)
    /\ \A i \in 1..Len(done) :
          /\ has_errors(done[i]) => ~is_empty(done[i].errors)
          /\ passed(done[i]) <=> is_empty(into_errors(done[i]))

\* a context that failed on a child built through a ValidationContext, beside
\* a finished context that passed
C1_Witness ==
    /\ ~IsPanic(ctx)
    /\ has_errors(ctx)
    /\ checks = "failed"
    /\ \E i \in 1..Len(ctx.errors.inner) : ctx.errors.inner[i].value.tag = "Struct"
    /\ \E i \in 1..Len(done) : passed(done[i])

-----------------------------------------------------------------------------
(* C2: writing a second entry under an occupied name of one tree node is a
   fatal contract violation and gives no ValidationResult: merge_enum,
   merge_struct and merge_list (with a failing child) on a present name panic
   whatever kind the name holds, merge_field panics when the name holds a
   non-Field kind. *)
C2_OccupiedNameAborts ==
    ~IsPanic(ctx) =>
       \A name \in Keys(into_errors(ctx)) :
          /\ \A e \in LeafErrors : IsPanic(merge_enum(ctx, name, e))
          /\ \A i \in 1..Len(done) :
                has_errors(done[i]) => IsPanic(merge_struct(ctx, name, done[i].errors))
          /\ IsPanic(merge_struct(ctx, name, ctx.errors))
          /\ FailingPositions(done) # {} => IsPanic(merge_list(ctx, name, done))
          /\ IsPanic(merge_list(ctx, name, <<Passed, ctx>>))
          /\ Get(ctx.errors, name).tag # "Field" =>
                \A e \in LeafErrors : IsPanic(merge_field(ctx, name, e))
          /\ \A struct \in StructArgs :
                (struct.some /\ has_errors(struct.val)) =>
                    IsPanic(ValidationContext_add_struct(ctx, name, struct, Kept))
          /\ FailingPositions(done) # {} =>
                IsPanic(ValidationContext_add_list(ctx, name, done, Kept))
          /\ IsPanic(ValidationContext_add_enum(ctx, name, Some("Hammer"),
                                                "validate_toolkind"))

\* add_struct with a failing child hit an occupied name
C2_Witness ==
    /\ IsPanic(ctx)
    /\ ctx.panic = "Attempt to replace non-empty nested entry"
    /\ \E i \in 1..Len(done) : has_errors(done[i])

-----------------------------------------------------------------------------
(* C3: add_list / merge_list over N element results validates every element;
   the List entry written under the list name has as keys exactly the original
   0-based positions of the failing elements, each mapped to that element's own
   error tree; when no element fails nothing is written and the parent result
   is returned unchanged. *)
C3_ListKeysAreFailingPositions ==
    ~IsPanic(ctx) =>
       \A name \in Names :
          LET r == ValidationContext_add_list(ctx, name, done, Kept)
              failing == FailingPositions(done)
          IN  /\ Len(CollectAll(done, Kept)) = Len(done)
              /\ failing = {} => r = ctx
              /\ (failing # {} /\ ~contains_key(into_errors(ctx), name)) =>
                    /\ ~IsPanic(r)
                    /\ has_errors(r)
                    /\ contains_key(r.errors, name)
                    /\ Get(r.errors, name).tag = "List"
                    /\ DOMAIN Get(r.errors, name).items = failing
                    /\ \A k \in failing :
                          Get(r.errors, name).items[k] = done[k + 1].errors

\* add_list has written a List entry for three elements of which the first and
\* the third failed
C3_Witness ==
    /\ ~IsPanic(ctx)
    /\ has_errors(ctx)
    /\ \E i \in 1..Len(ctx.errors.inner) :
          /\ ctx.errors.inner[i].value.tag = "List"
          /\ DOMAIN ctx.errors.inner[i].value.items = {0, 2}

-----------------------------------------------------------------------------
(* C4: add_struct(name, child, validator) leaves the parent result unchanged
   when the child is absent or validates to Passed; when the validator returns
   Error(subtree) (and the name is free, see C2) the parent becomes Error and
   gains exactly one new entry name -> Struct(subtree), the subtree being the
   child's own tree unmodified, and keeps every entry it had. *)
C4_StructTransparency ==
    ~IsPanic(ctx) =>
       \A name \in Names : \A struct \in StructArgs :
          LET r == ValidationContext_add_struct(ctx, name, struct, Kept)
          IN  /\ (~struct.some \/ passed(struct.val)) => r = ctx
              /\ (struct.some /\ has_errors(struct.val)
                    /\ ~contains_key(into_errors(ctx), name)) =>
                        GainsEntry(ctx, r, name, Struct(struct.val.errors))

\* add_struct has attached a child's tree to a parent that had a Field entry
C4_Witness ==
    /\ ~IsPanic(ctx)
    /\ has_errors(ctx)
    /\ Len(ctx.errors.inner) = 2
    /\ ctx.errors.inner[1].value.tag = "Field"
    /\ ctx.errors.inner[2].value.tag = "Struct"
    /\ ~is_empty(ctx.errors.inner[2].value.errors)

-----------------------------------------------------------------------------
(* C9: add_field and add_enum leave the accumulated result exactly unchanged
   when the value is absent or the predicate returns Ok (no entry created, a
   Passed state stays Passed), the predicate is not invoked for an absent
   value, and only a present value whose predicate returns Err changes the
   state. *)
C9_AbsentOrOkIsNoOp ==
    ~IsPanic(ctx) =>
       /\ \A name \in Names, field \in OptFieldValues, validation \in FieldValidations :
             LET r == ValidationContext_add_field(ctx, name, field, validation)
             IN  /\ ~field.some => (r = ctx /\ MapOption(field, validation) = None)
                 /\ (field.some /\ Apply(validation, field.val).ok) => r = ctx
                 /\ r # ctx => (field.some /\ ~Apply(validation, field.val).ok)
       /\ \A name \in Names, enum \in OptToolKinds :
             LET r == ValidationContext_add_enum(ctx, name, enum, "validate_toolkind")
             IN  /\ ~enum.some =>
                       (r = ctx /\ MapOption(enum, "validate_toolkind") = None)
                 /\ (enum.some /\ Apply("validate_toolkind", enum.val).ok) => r = ctx
                 /\ r # ctx => (enum.some /\ ~Apply("validate_toolkind", enum.val).ok)

\* calls with an absent value or an accepting predicate were made and the
\* context is still Passed
C9_Witness ==
    /\ checks = "passed"
    /\ ctx = Passed

-----------------------------------------------------------------------------
(* SpecBom: a Bom document is validated against a SpecVersion, and the result
   is compared with an expected tree as the tests do *)

InitBom ==
    /\ ctx = ValidationContext_new
    /\ checks = "none"
    /\ done = <<>>
    /\ cmp = NoCmp
    /\ doc \in Boms
    /\ specVersion \in SpecVersions
    /\ call = "none"
    /\ result = Passed
    /\ merged = <<>>

\* validate_bom(version, bom)
ValidateBom ==
    /\ call = "none"
    /\ call' = "validate_bom"
    /\ result' = validate_bom(specVersion, doc)
    /\ UNCHANGED <<ctx, checks, done, cmp, doc, specVersion, merged>>

\* metadata.validate(version), on the metadata of the document
ValidateMetadata ==
    /\ call = "none"
    /\ doc.meta_data.some
    /\ call' = "Metadata::validate"
    /\ result' = Metadata_validate(doc.meta_data.val, specVersion)
    /\ UNCHANGED <<ctx, checks, done, cmp, doc, specVersion, merged>>

\* the expected tree of a comparison: the literal of what validating the
\* document under `with` reports, its entries written in the opposite order
Expected(with) == DeepReversed(into_errors(Bom_validate(doc, with)))

\* assert_eq!(validation_result.errors(), Some(&expected))
Compare(with) ==
    /\ call = "validate_bom"
    /\ cmp = NoCmp
    /\ ~IsPanic(result)
    /\ cmp' = [with |-> with,
               equal |-> Option_eq(ValidationResult_errors(result),
                                   Some(Expected(with)))]
    /\ UNCHANGED <<ctx, checks, done, doc, specVersion, call, result, merged>>

NextBom ==
    \/ ValidateBom
    \/ ValidateMetadata
    \/ \E with \in {"V1_3", "V1_4"} : Compare(with)

SpecBom == InitBom /\ [][NextBom]_vars

-----------------------------------------------------------------------------
(* Reading a document and a result *)

HasChar(str, c) == \E i \in 1..Len(str) : str[i] = c

\* the rules, as the specification words them
TooLong(str) == Len(str) > validate_string_max
PassesLengthRule(opt) == opt.some => ~TooLong(opt.val)
PassesTimestampRule(opt) == opt.some => ~HasChar(opt.val, "a")

\* whether a result holds an entry under key
HasEntry(r, key) == has_errors(r) /\ contains_key(r.errors, key)

\* the entries of a result other than the one under key, in their order
EntriesExcept(r, key) ==
    SelectSeq(into_errors(r).inner, LAMBDA e : e.key # key)

\* the 0-based positions of the Hammer tools
HammerPositions(tools) == {i - 1 : i \in {j \in 1..Len(tools) : tools[j].kind = "Hammer"}}

TheMetadata == doc.meta_data.val

-----------------------------------------------------------------------------
(* C5: Metadata.validate checks the timestamp with the length rule (fails iff
   longer than 4) under V1_4 and with the timestamp rule (fails iff it holds an
   'a') under V1_3 and V1_5; so a document whose timestamp satisfies exactly one
   of the rules gets a 'timestamp' Field entry under one of V1_3 / V1_4 and not
   under the other, and every other entry is the same under all versions. *)
C5_VersionSelectsTimestampRule ==
    call = "Metadata::validate" =>
       LET ts == TheMetadata.timestamp
           other == IF specVersion = "V1_4" THEN "V1_3" ELSE "V1_4"
           r2 == Metadata_validate(TheMetadata, other)
       IN  /\ ~IsPanic(result)
           /\ specVersion = "V1_4" =>
                 (HasEntry(result, "timestamp") <=> ~PassesLengthRule(ts))
           /\ specVersion \in {"V1_3", "V1_5"} =>
                 (HasEntry(result, "timestamp") <=> ~PassesTimestampRule(ts))
           /\ HasEntry(result, "timestamp") =>
                 Get(result.errors, "timestamp") =
                    Field(<<ValidationError(
                        IF specVersion = "V1_4" THEN "String is too large"
                        ELSE "timestamp contains char 'a'")>>)
           /\ (PassesLengthRule(ts) # PassesTimestampRule(ts)) =>
                 /\ HasEntry(result, "timestamp") # HasEntry(r2, "timestamp")
                 /\ result # r2
           /\ \A w \in SpecVersions :
                 EntriesExcept(Metadata_validate(TheMetadata, w), "timestamp")
                    = EntriesExcept(result, "timestamp")

\* a timestamp that is too long and holds no 'a' (as "2024-01-02" of the
\* tests), refused under V1_4 and accepted under V1_3, beside a failing tool
C5_Witness ==
    /\ call = "Metadata::validate"
    /\ specVersion = "V1_4"
    /\ TheMetadata.timestamp = Some(Long)
    /\ HasEntry(result, "timestamp")
    /\ HasEntry(result, "tools")
    /\ ~HasEntry(Metadata_validate(TheMetadata, "V1_3"), "timestamp")

-----------------------------------------------------------------------------
(* C6: for a Bom whose serial_number, tool names and tool lastnames pass the
   length rule and whose timestamp passes the rule of the version, Bom.validate
   returns Passed when no tool is a Hammer, and otherwise Error with the single
   entry meta_data -> Struct, holding the single entry tools -> List, whose keys
   are the positions of the Hammer tools, each mapped to the single entry
   kind -> Enum("Tool must not be a hammer"). *)
C6_Precondition ==
    /\ ~TooLong(doc.serial_number)
    /\ doc.meta_data.some =>
          /\ IF specVersion = "V1_4"
             THEN PassesLengthRule(TheMetadata.timestamp)
             ELSE PassesTimestampRule(TheMetadata.timestamp)
          /\ \A i \in 1..Len(TheMetadata.tools) :
                /\ ~TooLong(TheMetadata.tools[i].name)
                /\ PassesLengthRule(TheMetadata.tools[i].lastname)

C6_Hammers ==
    IF doc.meta_data.some THEN HammerPositions(TheMetadata.tools) ELSE {}

C6_OnlyHammerPaths ==
    (call = "validate_bom" /\ C6_Precondition) =>
       IF C6_Hammers = {}
       THEN result = Passed
       ELSE result =
              Error([inner |-> <<[key |-> "meta_data", value |-> Struct(
                 [inner |-> <<[key |-> "tools", value |-> List(
                    [k \in C6_Hammers |->
                       [inner |-> <<[key |-> "kind", value |->
                          Enum(ValidationError("Tool must not be a hammer"))]>>]])]>>])]>>])

\* the document of the tests: two tools, only the second a Hammer
C6_Witness ==
    /\ call = "validate_bom"
    /\ C6_Precondition
    /\ doc.meta_data.some
    /\ Len(TheMetadata.tools) = 2
    /\ C6_Hammers = {1}
    /\ has_errors(result)

-----------------------------------------------------------------------------
(* C7: for every Bom and every SpecVersion validate_bom returns a
   ValidationResult and never reaches a contract-violation panic of
   add_nested, add_enum or add_field; the same holds of Metadata.validate. *)
C7_ValidationNeverPanics ==
    call # "none" =>
       /\ ~IsPanic(result)
       /\ passed(result) \/ has_errors(result)

\* every check of the document fails: each name of each node is written
C7_Witness ==
    /\ call = "validate_bom"
    /\ ~IsPanic(result)
    /\ has_errors(result)
    /\ Len(result.errors.inner) = 2
    /\ Len(Get(result.errors, "meta_data").errors.inner) = 2
    /\ \E k \in DOMAIN Get(Get(result.errors, "meta_data").errors, "tools").items :
          Len(Get(Get(result.errors, "meta_data").errors, "tools").items[k].inner) = 3

-----------------------------------------------------------------------------
(* Trees as maps: what a tree holds, whatever the insertion order *)

RECURSIVE AsMap(_), KindAsMap(_)

KindAsMap(kind) ==
    CASE kind.tag = "Struct" -> [tag |-> "Struct", errors |-> AsMap(kind.errors)]
      [] kind.tag = "List"   ->
            [tag |-> "List", items |-> [k \in DOMAIN kind.items |-> AsMap(kind.items[k])]]
      [] OTHER               -> kind

AsMap(errs) == [k \in Keys(errs) |-> KindAsMap(Get(errs, k))]

\* the two sides of the comparison recorded in cmp
CmpLeft == ValidationResult_errors(result)
CmpRight == Expected(cmp.with)

(* C8 as stated: two trees compare equal iff they hold the same names in the
   same insertion order with equal kinds under each name, recursively; trees
   holding the same pairs in a different order compare unequal. *)
C8_EqualityIsOrderSensitive ==
    cmp.with # "none" =>
       (cmp.equal <=> (CmpLeft.some /\ CmpLeft.val = CmpRight))

(* C8 as amended: two trees compare equal iff they hold the same set of names
   with equal kinds under each name (recursively for Struct and List payloads),
   whatever the insertion order of the names. *)
C8_EqualityIgnoresInsertionOrder ==
    cmp.with # "none" =>
       (cmp.equal <=> (CmpLeft.some /\ AsMap(CmpLeft.val) = AsMap(CmpRight)))

\* a tree of two names was compared with the literal of the same entries in the
\* opposite order, and they compared equal
C8_Witness ==
    /\ cmp.with = specVersion
    /\ cmp.equal
    /\ has_errors(result)
    /\ Len(result.errors.inner) = 2
    /\ CmpRight # result.errors

-----------------------------------------------------------------------------
(* C10: the entries of each error-tree node appear in the declaration order of
   the document type's fields; for a Metadata (timestamp, then tools) in which
   the timestamp check and a tool fail, 'timestamp' is listed before 'tools'. *)
C10_MetadataEntriesInDeclarationOrder ==
    (call = "Metadata::validate" /\ HasEntry(result, "timestamp")
        /\ HasEntry(result, "tools")) =>
       IndexOf(result.errors, "timestamp") < IndexOf(result.errors, "tools")

-----------------------------------------------------------------------------
(* SpecField: field and enum errors are merged into one ValidationResult,
   starting from ValidationResult::default() *)

\* the errors of the tests of src/src/validation.rs
FieldErrors == {ValidationError("missing"), ValidationError("again")}

InitField ==
    /\ ctx = Passed
    /\ checks = "none"
    /\ done = <<>>
    /\ cmp = NoCmp
    /\ doc = NoDoc
    /\ specVersion = "V1_3"
    /\ call = "none"
    /\ result = Passed
    /\ merged = <<>>

FieldUnchanged == UNCHANGED <<checks, done, cmp, doc, specVersion, call, result>>

\* ctx = ValidationErrors::merge_field(ctx, field_name, validation_error)
MergeField(field_name, validation_error) ==
    /\ ~IsPanic(ctx)
    /\ Len(merged) < MaxMerges
    /\ ctx' = merge_field(ctx, field_name, validation_error)
    /\ merged' = Append(merged, [op |-> "merge_field", name |-> field_name,
                                 error |-> validation_error])
    /\ FieldUnchanged

\* ctx = ValidationErrors::merge_enum(ctx, enum_name, validation_error)
MergeEnum(enum_name, validation_error) ==
    /\ ~IsPanic(ctx)
    /\ Len(merged) < MaxMerges
    /\ ctx' = merge_enum(ctx, enum_name, validation_error)
    /\ merged' = Append(merged, [op |-> "merge_enum", name |-> enum_name,
                                 error |-> validation_error])
    /\ FieldUnchanged

NextField ==
    \/ \E name \in Names, error \in FieldErrors : MergeField(name, error)
    \/ \E name \in Names : MergeEnum(name, ValidationError("Tool must not be a hammer"))

SpecField == InitField /\ [][NextField]_vars

\* the errors of the merge_field calls made under a name, in call order
RECURSIVE FieldErrorsOf(_, _)
FieldErrorsOf(calls, name) ==
    IF calls = <<>> THEN <<>>
    ELSE LET rest == FieldErrorsOf(SubSeq(calls, 1, Len(calls) - 1), name)
             c == calls[Len(calls)]
         IN  IF c.op = "merge_field" /\ c.name = name
             THEN Append(rest, c.error)
             ELSE rest

\* what merge_field(parent, name, error) returns, as C11 states it
AccumulatesOne(parent, name, error) ==
    LET old == into_errors(parent)
        new == merge_field(parent, name, error)
    IN  IF ~contains_key(old, name)
        THEN new = Error([inner |-> Append(old.inner,
                              [key |-> name, value |-> Field(<<error>>)])])
        ELSE Get(old, name).tag = "Field" =>
               /\ ~IsPanic(new)
               /\ new.tag = "Error"
               /\ Len(new.errors.inner) = Len(old.inner)
               /\ \A i \in 1..Len(old.inner) :
                     IF i = IndexOf(old, name)
                     THEN /\ new.errors.inner[i].key = name
                          /\ new.errors.inner[i].value =
                                Field(Append(old.inner[i].value.errs, error))
                     ELSE new.errors.inner[i] = old.inner[i]

(* C11: merge_field on a name not yet present creates a Field entry holding
   exactly the one error; on a name that holds a Field entry it appends the
   error to the end of the entry's sequence, without aborting and without
   changing the entry's position or any other entry; after k failing field
   checks under one name the Field entry holds those k errors in call order. *)
C11_FieldErrorsAccumulate ==
    ~IsPanic(ctx) =>
       /\ \A name \in Names, error \in FieldErrors : AccumulatesOne(ctx, name, error)
       /\ \A name \in Names :
             LET es == FieldErrorsOf(merged, name)
                 errs == into_errors(ctx)
             IN  IF es = <<>>
                 THEN contains_key(errs, name) => Get(errs, name).tag # "Field"
                 ELSE /\ contains_key(errs, name)
                      /\ Get(errs, name) = Field(es)

\* two different errors were merged under "a" with an enum error merged under
\* "b" between them: "a" is still the first entry and holds both, in call order
C11_Witness ==
    /\ Len(merged) = 3
    /\ merged[2].op = "merge_enum"
    /\ ctx = Error([inner |->
          << [key |-> "a", value |-> Field(<<ValidationError("missing"),
                                             ValidationError("again")>>)],
             [key |-> "b", value |-> Enum(ValidationError("Tool must not be a hammer"))] >>])

====
